---------------------------- MODULE Spec2Model ----------------------------
(***************************************************************************)
(* A state-machine model of src/server.js: an Express application over a   *)
(* MongoDB database with the collections admin, products, orders, logos.   *)
(*                                                                         *)
(* Node runs one handler's synchronous code at a time and may switch to    *)
(* another request at every `await`.  A request is therefore a little      *)
(* process: its program counter `pc` names the await it is suspended at,   *)
(* and one action of the model is the code that runs from one await to the *)
(* next (the store operation that the await waited for, and the handler's  *)
(* synchronous code up to the next await or the response).                 *)
(*                                                                         *)
(* The store itself is taken to work: once connected, an operation on a    *)
(* collection does what the MongoDB driver documents and does not fail.    *)
(* The only store failure modelled is the one the source handles on its    *)
(* own, a failing client.connect().                                        *)
(***************************************************************************)
EXTENDS Integers, Sequences, FiniteSets, TLC

VARIABLES
    database,   \* the module-level `let database` (server.js:39): assigned or not
    listenPc,   \* where the app.listen callback stands
    admin,      \* collection 'admin', in insertion order
    products,   \* collection 'products', in insertion order
    orders,     \* collection 'orders', in insertion order
    logos,      \* collection 'logos', in insertion order
    nextOid,    \* the next ObjectId the driver generates for an insertOne
    reqs        \* the requests received so far, each with its position and response

vars == <<database, listenPc, admin, products, orders, logos, nextOid, reqs>>

---------------------------------------------------------------------------
(* Bounds of the model. *)

\* Requests received in one behaviour of the whole API or of one service.
MaxRequests == 2
\* Registrations and logins received in one behaviour of the two together.
MaxCredentialRequests == 3
\* Requests received in one behaviour of the order and logo services.
MaxOrderRequests == 3
\* Requests received in one behaviour when they are handled one at a time.
MaxSeqRequests == 3
\* Well-formed identifiers a client may send: 1..MaxOid.
MaxOid == 3
\* Salts bcrypt may draw: 1..MaxSalt.
MaxSalt == 2

---------------------------------------------------------------------------
(* JavaScript values. *)

\* A destructured field that the request does not carry.
Undefined == "<undefined>"
\* The value null.
Null == "<null>"

\* !v for the string-valued fields of a request body.
Falsy(v) == v \in {Undefined, Null, ""}

\* a || b
OrElse(a, b) == IF Falsy(a) THEN b ELSE a

\* The price of a request: a JSON number, a string, or nothing.
NumberValue(n) == [t |-> "number", n |-> n, s |-> <<>>]
StringValue(s) == [t |-> "string", n |-> 0, s |-> s]
UndefinedValue == [t |-> "undefined", n |-> 0, s |-> <<>>]
NaN == [t |-> "NaN", n |-> 0, s |-> <<>>]

\* !v for a price: undefined, 0, NaN and the empty string are falsy.
FalsyValue(v) ==
    \/ v.t \in {"undefined", "NaN"}
    \/ v.t = "number" /\ v.n = 0
    \/ v.t = "string" /\ v.s = <<>>

Digits == {"0", "1", "2"}
DigitVal(c) == CASE c = "0" -> 0 [] c = "1" -> 1 [] c = "2" -> 2

\* The longest prefix of s made of digits.
RECURSIVE LeadingDigits(_)
LeadingDigits(s) ==
    IF s = <<>> \/ Head(s) \notin Digits THEN <<>>
    ELSE <<Head(s)>> \o LeadingDigits(Tail(s))

RECURSIVE DecimalValue(_, _)
DecimalValue(s, acc) ==
    IF s = <<>> THEN acc ELSE DecimalValue(Tail(s), 10 * acc + DigitVal(Head(s)))

\* parseFloat(v): a number is converted to a string and read back; of a string
\* the leading numeral is read and the rest ignored; NaN when there is none.
ParseFloat(v) ==
    CASE v.t = "number" -> v
      [] v.t = "string" ->
            IF LeadingDigits(v.s) = <<>> THEN NaN
            ELSE NumberValue(DecimalValue(LeadingDigits(v.s), 0))
      [] OTHER -> NaN

---------------------------------------------------------------------------
(* Identifiers.  An identifier reaches a handler as a string (a route      *)
(* parameter) or as a field of the JSON body: k tells what the client      *)
(* sent, and for a well-formed hexadecimal string oid is the ObjectId it   *)
(* denotes.                                                                *)

AbsentId == [k |-> "absent", oid |-> 0]
EmptyId == [k |-> "empty", oid |-> 0]
MalformedId == [k |-> "malformed", oid |-> 0]
HexId(n) == [k |-> "hex", oid |-> n]

\* Identifiers a route parameter can hold: Express matches no empty segment.
ParamIds == {MalformedId} \cup {HexId(n) : n \in 1..MaxOid}
\* Identifiers the `id` of a JSON body can hold.
BodyIds == {AbsentId, EmptyId} \cup ParamIds

\* !id
FalsyId(id) == id.k \in {"absent", "empty"}

\* (A check that only asks for a string.)
ObjectIdIsString(id) == id.k \in {"hex", "malformed"}

\* ObjectId.isValid(id)
ObjectIdIsValid(id) == id.k = "hex"

\* new ObjectId(id) throws for what ObjectId.isValid rejects ...
ObjectIdThrows(id) == ~ObjectIdIsValid(id)
\* ... and is the ObjectId the string denotes otherwise.
NewObjectId(id) == id.oid

---------------------------------------------------------------------------
(* bcryptjs. *)

Salts == 1..MaxSalt

\* bcrypt.hash(password, 10): the stored string carries the salt and the digest
\* of the salted password.
BcryptHash(password, salt) == [salt |-> salt, digest |-> <<salt, password>>]

\* (A comparison that looks at the salt only.)
BcryptCompareSalt(password, hash) == BcryptHash(password, hash.salt).salt = hash.salt

\* bcrypt.compare(password, hash): hashes the password with the salt of `hash`.
BcryptCompare(password, hash) == BcryptHash(password, hash.salt).digest = hash.digest

---------------------------------------------------------------------------
(* The collections: the driver's operations on a sequence of documents. *)

Indices(coll) == 1..Len(coll)

\* The positions of the documents whose _id is oid.
MatchId(coll, oid) == {i \in Indices(coll) : coll[i]._id = oid}
\* (A lookup that compares the wrong field.)
MatchEmailByName(coll, email) == {i \in Indices(coll) : coll[i].name = email}
\* The positions of the admins whose email is email.
MatchEmail(coll, email) == {i \in Indices(coll) : coll[i].email = email}

Min(S) == CHOOSE x \in S : \A y \in S : x <= y

\* collection.findOne(filter): the first matching document, or null.
FindOne(coll, matches) == IF matches = {} THEN Null ELSE coll[Min(matches)]

\* collection.insertOne(doc): the driver gives the document a fresh _id.
InsertOne(coll, doc, oid) == Append(coll, [_id |-> oid] @@ doc)

\* (An update that is lost: the collection stays as it was.)
UpdateNone(coll, matches, fields) == coll
\* collection.updateOne(filter, {$set: fields}): the first matching document gets
\* the fields, and keeps its other fields.
UpdateOne(coll, matches, fields) ==
    IF matches = {} THEN coll ELSE [coll EXCEPT ![Min(matches)] = fields @@ @]

\* collection.deleteOne(filter): removes the first matching document.
RemoveAt(coll, i) == [j \in 1..(Len(coll) - 1) |-> IF j < i THEN coll[j] ELSE coll[j + 1]]
\* (A delete that removes every document once one matches.)
DeleteAll(coll, matches) == IF matches = {} THEN coll ELSE <<>>
DeleteOne(coll, matches) == IF matches = {} THEN coll ELSE RemoveAt(coll, Min(matches))
DeletedCount(matches) == IF matches = {} THEN 0 ELSE 1

\* result.matchedCount of an updateOne.
MatchedCount(matches) == IF matches = {} THEN 0 ELSE 1

---------------------------------------------------------------------------
(* Requests. *)

NoResponse == [status |-> 0, message |-> "", body |-> [none |-> TRUE]]
NoBody == [none |-> TRUE]
NoLocal == [none |-> TRUE]

\* A request as the server receives it.  `seen` holds the requests whose
\* responses had been sent when this one was received and `early` tells whether
\* `database` was still unassigned then; `storeOps` counts the store operations
\* its handler has issued; `by` names the code that answered.
NewRequest(op, a) ==
    [op |-> op, a |-> a, pc |-> "received", seen |-> {i \in 1..Len(reqs) : reqs[i].pc = "done"},
     early |-> ~database,
     handled |-> FALSE, storeOps |-> 0, local |-> NoLocal, by |-> "", resp |-> NoResponse]

\* res.status(status).json({message, ...body})
Respond(r, by, status, message, body) ==
    [r EXCEPT !.pc = "done", !.by = by,
              !.resp = [status |-> status, message |-> message, body |-> body]]

\* A store operation (or another asynchronous call) is issued and awaited.
Await(r, pc) == [r EXCEPT !.pc = pc, !.storeOps = @ + 1]
AwaitOther(r, pc) == [r EXCEPT !.pc = pc]

Done(i) == reqs[i].pc = "done"
At(i, op, pc) == i \in 1..Len(reqs) /\ reqs[i].op = op /\ reqs[i].pc = pc

\* The operations whose request carries a JSON body, which bodyParser.json()
\* (server.js:41) reads from the socket before any later middleware runs.
JsonOps == {"register", "login", "loginWithId", "updateProduct"}

---------------------------------------------------------------------------
(* Credential service: the synchronous code of each handler up to its      *)
(* first await.                                                            *)

\* POST /register, lines 67-75.
RegisterBegin(r) ==
    IF Falsy(r.a.name) \/ Falsy(r.a.email) \/ Falsy(r.a.password)
    THEN Respond(r, "handler", 400, "Please provide all fields", NoBody)
    ELSE Await(r, "findOne")

\* POST /login, lines 101-109.
LoginBegin(r) ==
    IF Falsy(r.a.email) \/ Falsy(r.a.password)
    THEN Respond(r, "handler", 400, "Email and password are required", NoBody)
    ELSE Await(r, "findOne")

\* (A handler that validates the id as the order and logo handlers do.)
LoginWithIdBeginValidated(r) ==
    IF FalsyId(r.a.id) \/ ~ObjectIdIsValid(r.a.id)
    THEN Respond(r, "handler", 400, "ID is required", NoBody)
    ELSE Await(r, "findOne")

\* POST /login-with-id, lines 134-142: new ObjectId(id) runs inside the try,
\* before the store is asked, and its exception is answered by the catch.
LoginWithIdBegin(r) ==
    IF FalsyId(r.a.id)
    THEN Respond(r, "handler", 400, "ID is required", NoBody)
    ELSE IF ObjectIdThrows(r.a.id)
         THEN Respond(r, "handler", 500, "Error logging in", NoBody)
         ELSE Await(r, "findOne")

---------------------------------------------------------------------------
(* Catalog service: the synchronous code of each handler up to its first   *)
(* await.                                                                  *)

\* GET /products (lines 161-164) and GET /all/products (lines 256-259).
ListProductsBegin(r) == Await(r, "find")

\* POST /products: upload.single('image') (line 173) runs before the handler
\* and sends the file to the image host.
CreateProductBegin(r) == AwaitOther(r, "upload")

\* (An update that leaves the image alone when the request has none.)
UpdatedProductKeepImage(a) ==
    IF Falsy(a.image)
    THEN [name |-> a.name, category |-> a.category, price |-> ParseFloat(a.price),
          size |-> a.size, description |-> OrElse(a.description, "")]
    ELSE [name |-> a.name, category |-> a.category, price |-> ParseFloat(a.price),
          size |-> a.size, image |-> a.image, description |-> OrElse(a.description, "")]

\* The object that PUT /products/:id writes, lines 211-218.
UpdatedProduct(a) ==
    [name |-> a.name, category |-> a.category, price |-> ParseFloat(a.price),
     size |-> a.size, image |-> OrElse(a.image, Null),
     description |-> OrElse(a.description, "")]

\* PUT /products/:id, lines 201-223.
UpdateProductBegin(r) ==
    IF Falsy(r.a.name) \/ Falsy(r.a.category) \/ FalsyValue(r.a.price) \/ Falsy(r.a.size)
    THEN Respond(r, "handler", 400, "Please provide all required fields", NoBody)
    ELSE IF ObjectIdThrows(r.a.id)
         THEN Respond(r, "handler", 500, "Error updating product", NoBody)
         ELSE Await([r EXCEPT !.local = UpdatedProduct(r.a)], "updateOne")

\* DELETE /products/:id, lines 238-242.
DeleteProductBegin(r) ==
    IF ObjectIdThrows(r.a.id)
    THEN Respond(r, "handler", 500, "Error deleting product", NoBody)
    ELSE Await(r, "deleteOne")

---------------------------------------------------------------------------
(* Order and logo services, and the list of admins.                        *)

\* GET /api/orders, lines 268-271.
ListOrdersBegin(r) == Await(r, "find")

\* GET /api/orders/:id, lines 281-290.
GetOrderBegin(r) ==
    IF ~ObjectIdIsValid(r.a.id)
    THEN Respond(r, "handler", 400, "Invalid order ID format", NoBody)
    ELSE Await(r, "findOne")

\* POST /api/orders/:orderId/complete, lines 306-320.
CompleteOrderBegin(r) ==
    IF ~ObjectIdIsValid(r.a.id)
    THEN Respond(r, "handler", 400, "Invalid order ID format", NoBody)
    ELSE Await(r, "updateOne")

\* GET /api/admins, lines 334-337.
ListAdminsBegin(r) == Await(r, "find")

\* GET /api/logos, lines 381-384.
ListLogosBegin(r) == Await(r, "find")

\* GET /api/logos/:id, lines 394-402.
GetLogoBegin(r) ==
    IF ~ObjectIdIsValid(r.a.id)
    THEN Respond(r, "handler", 400, "Invalid logo ID format", NoBody)
    ELSE Await(r, "findOne")

\* POST /api/logos/:id/complete, lines 417-431.
ApproveLogoBegin(r) ==
    IF ~ObjectIdIsValid(r.a.id)
    THEN Respond(r, "handler", 400, "Invalid logo ID format", NoBody)
    ELSE Await(r, "updateOne")

\* GET /api/total, lines 446-450.
TotalsBegin(r) == Await(r, "aggregateLogos")

\* GET /api/sales-stats, lines 468-471.
SalesStatsBegin(r) == Await(r, "aggregateTotal")

---------------------------------------------------------------------------
(* The middleware chain: bodyParser.json() (line 41), the readiness gate   *)
(* (line 63), the route.                                                   *)

\* The route handler of the request, run to its first await.
Route(r) ==
    CASE r.op = "register" -> RegisterBegin(r)
      [] r.op = "login" -> LoginBegin(r)
      [] r.op = "loginWithId" -> LoginWithIdBegin(r)
      [] r.op \in {"listProducts", "listAllProducts"} -> ListProductsBegin(r)
      [] r.op = "createProduct" -> CreateProductBegin(r)
      [] r.op = "updateProduct" -> UpdateProductBegin(r)
      [] r.op = "deleteProduct" -> DeleteProductBegin(r)
      [] r.op = "listOrders" -> ListOrdersBegin(r)
      [] r.op = "getOrder" -> GetOrderBegin(r)
      [] r.op = "completeOrder" -> CompleteOrderBegin(r)
      [] r.op = "listAdmins" -> ListAdminsBegin(r)
      [] r.op = "listLogos" -> ListLogosBegin(r)
      [] r.op = "getLogo" -> GetLogoBegin(r)
      [] r.op = "approveLogo" -> ApproveLogoBegin(r)
      [] r.op = "totals" -> TotalsBegin(r)
      [] r.op = "salesStats" -> SalesStatsBegin(r)

\* (A gate that lets every request through.)
ensureNothing(r) == Route([r EXCEPT !.handled = TRUE])

\* ensureDatabaseInitialized, lines 55-60, and next() into the route.
ensureDatabaseInitialized(r) ==
    IF ~database
    THEN Respond(r, "gate", 500, "Database not initialized. Please try again later.", NoBody)
    ELSE Route([r EXCEPT !.handled = TRUE])

\* bodyParser.json() on a request without a JSON body calls next() at once; a
\* JSON body is first read from the socket, and the request waits for it.
Receive(r) ==
    IF r.op \in JsonOps THEN AwaitOther(r, "parse") ELSE ensureDatabaseInitialized(r)

---------------------------------------------------------------------------
(* The server. *)

\* The orders and logos are written by other programs, the products by
\* earlier runs of this one; these are documents the store may hold when the
\* server starts.
PendingOrder(oid) == [_id |-> oid, status |-> "pending", totalAmount |-> 5, createdAt |-> 400]
CompleteOrder(oid) == [PendingOrder(oid) EXCEPT !.status = "complete"]
SubmittedLogo(oid) == [_id |-> oid, approval |-> FALSE, price |-> 3]
ApprovedLogo(oid) == [SubmittedLogo(oid) EXCEPT !.approval = TRUE]
StoredProduct(oid) ==
    [_id |-> oid, name |-> "jersey", category |-> "kit", price |-> NumberValue(oid),
     size |-> "M", image |-> "url0", description |-> ""]

\* The process after the module is loaded: the server listens (line 502),
\* connectToDatabase has been called and awaits client.connect().
InitServer ==
    /\ database = FALSE
    /\ listenPc = "connecting"
    /\ reqs = <<>>

\* A store with one order, one logo and one product.
Init ==
    /\ InitServer
    /\ admin = <<>>
    /\ orders = <<PendingOrder(1)>>
    /\ logos = <<SubmittedLogo(2)>>
    /\ products = <<StoredProduct(3)>>
    /\ nextOid = 4

\* A store without admins.
InitCredential ==
    /\ InitServer
    /\ admin = <<>> /\ orders = <<>> /\ logos = <<>> /\ products = <<>>
    /\ nextOid = 1

\* A store with two products.
InitCatalog ==
    /\ InitServer
    /\ admin = <<>> /\ orders = <<>> /\ logos = <<>>
    /\ products = <<StoredProduct(1), StoredProduct(2)>>
    /\ nextOid = 3

\* A store with at most one order and at most one logo, in either status.
InitOrders ==
    /\ InitServer
    /\ admin = <<>> /\ products = <<>>
    /\ orders \in {<<>>, <<PendingOrder(1)>>, <<CompleteOrder(1)>>}
    /\ logos \in {<<>>, <<SubmittedLogo(2)>>, <<ApprovedLogo(2)>>}
    /\ nextOid = 3

\* connectToDatabase, lines 44-52: client.connect() resolves and the handle
\* is assigned, or it rejects and the catch leaves `database` unassigned.
connectToDatabase ==
    /\ listenPc = "connecting"
    /\ \/ database' = TRUE /\ listenPc' = "listening"
       \/ database' = database /\ listenPc' = "failed"
    /\ UNCHANGED <<admin, products, orders, logos, nextOid, reqs>>

\* A request is received: bodyParser.json() and, unless a body is awaited,
\* the gate and the handler's first synchronous code.
Received(op, a) == Append(reqs, Receive(NewRequest(op, a)))

\* Every earlier request has been answered.
AllDone == \A i \in 1..Len(reqs) : Done(i)

\* bodyParser.json() has read the body: a body that is no JSON is answered by
\* Express's error handler with the parser's status 400, and no later
\* middleware runs; otherwise next() enters the gate.
ParseBody(i) ==
    /\ i \in 1..Len(reqs) /\ reqs[i].pc = "parse"
    /\ LET r == reqs[i] IN
       reqs' = [reqs EXCEPT ![i] =
                  IF ~r.a.json
                  THEN Respond(r, "bodyParser", 400, "", NoBody)
                  ELSE ensureDatabaseInitialized(r)]
    /\ UNCHANGED <<database, listenPc, admin, products, orders, logos, nextOid>>

\* A body that is not JSON.
MalformedBody == [json |-> FALSE]

---------------------------------------------------------------------------
(* Credential service: from each await to the next.                        *)

\* POST /register, lines 75-81: findOne({email}) has answered.
RegisterFindOne(i) ==
    /\ At(i, "register", "findOne")
    /\ LET r == reqs[i] IN
       reqs' = [reqs EXCEPT ![i] =
                  IF MatchEmail(admin, r.a.email) # {}
                  THEN Respond(r, "handler", 400, "Email already exists", NoBody)
                  ELSE AwaitOther(r, "hash")]
    /\ UNCHANGED <<database, listenPc, admin, products, orders, logos, nextOid>>

\* The document of lines 83-88.
NewAdmin(a, hashedPassword) ==
    [name |-> a.name, email |-> a.email, password |-> hashedPassword,
     fingerprint |-> OrElse(a.fingerprint, Null)]

\* Lines 81-90: bcrypt.hash has answered, insertOne is issued.
RegisterHash(i) ==
    /\ At(i, "register", "hash")
    /\ \E salt \in Salts :
          LET r == reqs[i]
              newAdmin == NewAdmin(r.a, BcryptHash(r.a.password, salt))
          IN  reqs' = [reqs EXCEPT ![i] = Await([r EXCEPT !.local = newAdmin], "insertOne")]
    /\ UNCHANGED <<database, listenPc, admin, products, orders, logos, nextOid>>

\* (An insert that the store refuses for an email it already holds.)
RegisterInsertOneUnique(i) ==
    /\ At(i, "register", "insertOne")
    /\ LET r == reqs[i]
           dup == MatchEmail(admin, r.a.email) # {}
       IN  /\ admin' = IF dup THEN admin ELSE InsertOne(admin, r.local, nextOid)
           /\ nextOid' = nextOid + 1
           /\ reqs' = [reqs EXCEPT ![i] =
                         IF dup
                         THEN Respond(r, "handler", 500, "Registration failed", NoBody)
                         ELSE Respond([r EXCEPT !.local = [_id |-> nextOid] @@ r.local],
                                      "handler", 201, "Admin registered successfully", NoBody)]
    /\ UNCHANGED <<database, listenPc, products, orders, logos>>

\* Lines 90-92: insertOne has answered; the driver has put the _id into newAdmin.
RegisterInsertOne(i) ==
    /\ At(i, "register", "insertOne")
    /\ LET r == reqs[i] IN
       /\ admin' = InsertOne(admin, r.local, nextOid)
       /\ nextOid' = nextOid + 1
       /\ reqs' = [reqs EXCEPT ![i] =
                     Respond([r EXCEPT !.local = [_id |-> nextOid] @@ r.local],
                             "handler", 201, "Admin registered successfully", NoBody)]
    /\ UNCHANGED <<database, listenPc, products, orders, logos>>

\* The body of a successful login, lines 121-126 and 148-153.
LoginBody(user) == [id |-> user._id, email |-> user.email, name |-> user.name]

\* POST /login, lines 109-115: findOne({email}) has answered.
LoginFindOne(i) ==
    /\ At(i, "login", "findOne")
    /\ LET r == reqs[i]
           m == MatchEmail(admin, r.a.email)
       IN  reqs' = [reqs EXCEPT ![i] =
                      IF m = {}
                      THEN Respond(r, "handler", 401, "Invalid email or password", NoBody)
                      ELSE AwaitOther([r EXCEPT !.local = FindOne(admin, m)], "compare")]
    /\ UNCHANGED <<database, listenPc, admin, products, orders, logos, nextOid>>

\* Lines 115-126: bcrypt.compare has answered.
LoginCompare(i) ==
    /\ At(i, "login", "compare")
    /\ LET r == reqs[i] IN
       reqs' = [reqs EXCEPT ![i] =
                  IF ~BcryptCompare(r.a.password, r.local.password)
                  THEN Respond(r, "handler", 401, "Invalid email or password", NoBody)
                  ELSE Respond(r, "handler", 200, "Login successful", LoginBody(r.local))]
    /\ UNCHANGED <<database, listenPc, admin, products, orders, logos, nextOid>>

\* POST /login-with-id, lines 142-153: findOne({_id}) has answered.
LoginWithIdFindOne(i) ==
    /\ At(i, "loginWithId", "findOne")
    /\ LET r == reqs[i]
           m == MatchId(admin, NewObjectId(r.a.id))
       IN  reqs' = [reqs EXCEPT ![i] =
                      IF m = {}
                      THEN Respond(r, "handler", 401, "Invalid ID", NoBody)
                      ELSE Respond(r, "handler", 200, "Login successful",
                                   LoginBody(FindOne(admin, m)))]
    /\ UNCHANGED <<database, listenPc, admin, products, orders, logos, nextOid>>

\* The bodies of the requests to the credential service.
RegisterBody(name, email, password, fingerprint) ==
    [json |-> TRUE, name |-> name, email |-> email, password |-> password,
     fingerprint |-> fingerprint]
RegisterBodies ==
    {RegisterBody("ann", "a@x", "pw1", Undefined),
     RegisterBody("bob", "a@x", "pw2", "fp"),
     RegisterBody("ann", "b@x", "pw1", Undefined),
     RegisterBody(Undefined, "a@x", "pw1", Undefined),
     RegisterBody("ann", "", "pw1", Undefined),
     RegisterBody("ann", "a@x", Undefined, Undefined)}
LoginRequestBody(email, password) == [json |-> TRUE, email |-> email, password |-> password]
LoginBodies ==
    {LoginRequestBody(e, p) : e \in {"a@x", "b@x"}, p \in {"pw1", "pw2"}}
        \cup {LoginRequestBody(Undefined, "pw1"), LoginRequestBody("a@x", "")}
LoginWithIdBodies == {[json |-> TRUE, id |-> id] : id \in BodyIds}

ArriveRegister(max) ==
    /\ Len(reqs) < max
    /\ \E a \in RegisterBodies \cup {MalformedBody} : reqs' = Received("register", a)
    /\ UNCHANGED <<database, listenPc, admin, products, orders, logos, nextOid>>

ArriveLogin(max) ==
    /\ Len(reqs) < max
    /\ \E a \in LoginBodies \cup {MalformedBody} : reqs' = Received("login", a)
    /\ UNCHANGED <<database, listenPc, admin, products, orders, logos, nextOid>>

ArriveLoginWithId(max) ==
    /\ Len(reqs) < max
    /\ \E a \in LoginWithIdBodies \cup {MalformedBody} : reqs' = Received("loginWithId", a)
    /\ UNCHANGED <<database, listenPc, admin, products, orders, logos, nextOid>>

---------------------------------------------------------------------------
(* Catalog service: from each await to the next.                           *)

\* GET /products and GET /all/products: find({}).toArray() has answered.
ListProductsFind(i) ==
    /\ At(i, "listProducts", "find") \/ At(i, "listAllProducts", "find")
    /\ reqs' = [reqs EXCEPT ![i] = Respond(reqs[i], "handler", 200, "", [list |-> products])]
    /\ UNCHANGED <<database, listenPc, admin, products, orders, logos, nextOid>>

\* The document of lines 182-189.
NewProduct(a) ==
    [name |-> a.name, category |-> a.category, price |-> ParseFloat(a.price),
     size |-> a.size, image |-> a.file, description |-> OrElse(a.description, "")]

\* POST /products, lines 174-191: the upload middleware has finished.  Without
\* a file part req.file is undefined and req.file.path throws inside the try.
CreateProductUploaded(i) ==
    /\ At(i, "createProduct", "upload")
    /\ LET r == reqs[i] IN
       reqs' = [reqs EXCEPT ![i] =
                  IF Falsy(r.a.name) \/ Falsy(r.a.category) \/ FalsyValue(r.a.price)
                        \/ Falsy(r.a.size)
                  THEN Respond(r, "handler", 400, "Please provide all required fields", NoBody)
                  ELSE IF r.a.file = Undefined
                       THEN Respond(r, "handler", 500, "Error adding product", NoBody)
                       ELSE Await([r EXCEPT !.local = NewProduct(r.a)], "insertOne")]
    /\ UNCHANGED <<database, listenPc, admin, products, orders, logos, nextOid>>

\* Lines 191-192: insertOne has answered.
CreateProductInsertOne(i) ==
    /\ At(i, "createProduct", "insertOne")
    /\ LET r == reqs[i] IN
       /\ products' = InsertOne(products, r.local, nextOid)
       /\ nextOid' = nextOid + 1
       /\ reqs' = [reqs EXCEPT ![i] =
                     Respond(r, "handler", 201, "Product added successfully",
                             [product |-> [_id |-> nextOid] @@ r.local])]
    /\ UNCHANGED <<database, listenPc, admin, orders, logos>>

\* PUT /products/:id, lines 220-229: updateOne has answered.
UpdateProductUpdateOne(i) ==
    /\ At(i, "updateProduct", "updateOne")
    /\ LET r == reqs[i]
           m == MatchId(products, NewObjectId(r.a.id))
       IN  /\ products' = UpdateOne(products, m, r.local)
           /\ reqs' = [reqs EXCEPT ![i] =
                         IF MatchedCount(m) = 0
                         THEN Respond(r, "handler", 404, "Product not found", NoBody)
                         ELSE Respond(r, "handler", 200, "Product updated successfully",
                                      [updatedProduct |-> r.local])]
    /\ UNCHANGED <<database, listenPc, admin, orders, logos, nextOid>>

\* DELETE /products/:id, lines 242-248: deleteOne has answered.
DeleteProductDeleteOne(i) ==
    /\ At(i, "deleteProduct", "deleteOne")
    /\ LET r == reqs[i]
           m == MatchId(products, NewObjectId(r.a.id))
       IN  /\ products' = DeleteOne(products, m)
           /\ reqs' = [reqs EXCEPT ![i] =
                         IF DeletedCount(m) = 0
                         THEN Respond(r, "handler", 404, "Product not found", NoBody)
                         ELSE Respond(r, "handler", 200, "Product deleted successfully", NoBody)]
    /\ UNCHANGED <<database, listenPc, admin, orders, logos, nextOid>>

\* The fields of the requests to the catalog service.  A multipart field is a
\* string; a JSON field is what the client wrote.
ProductFields(name, category, price, size, description) ==
    [name |-> name, category |-> category, price |-> price, size |-> size,
     description |-> description]
CreateProductBodies ==
    {ProductFields("cap", "hat", StringValue(<<"1", "2">>), "S", "new") @@ [file |-> "url1"],
     ProductFields("cap", "hat", StringValue(<<"a">>), "S", Undefined) @@ [file |-> "url1"],
     ProductFields(Undefined, "hat", StringValue(<<"1">>), "S", "new") @@ [file |-> "url1"],
     ProductFields("cap", "hat", StringValue(<<"1">>), "S", "new") @@ [file |-> Undefined]}
UpdateProductFields ==
    {ProductFields("shirt", "top", NumberValue(2), "L", "long") @@ [image |-> "url2"],
     ProductFields("shirt", "top", StringValue(<<"1", "a">>), "L", Undefined)
        @@ [image |-> Undefined],
     ProductFields("shirt", "top", StringValue(<<"a">>), "L", "long") @@ [image |-> ""]}
InvalidProductFields ==
    {ProductFields(Undefined, "top", NumberValue(2), "L", "long") @@ [image |-> "url2"],
     ProductFields("shirt", "", NumberValue(2), "L", "long") @@ [image |-> "url2"],
     ProductFields("shirt", "top", NumberValue(0), "L", "long") @@ [image |-> "url2"],
     ProductFields("shirt", "top", NumberValue(2), Undefined, "long") @@ [image |-> "url2"]}
UpdateProductBodies ==
    {[json |-> TRUE, id |-> id] @@ f : id \in ParamIds, f \in UpdateProductFields}
        \cup {[json |-> TRUE, id |-> MalformedId] @@ f : f \in InvalidProductFields}
IdParams == {[id |-> id] : id \in ParamIds}
NoParams == [none |-> TRUE]

ArriveListProducts(max) ==
    /\ Len(reqs) < max
    /\ \E op \in {"listProducts", "listAllProducts"} : reqs' = Received(op, NoParams)
    /\ UNCHANGED <<database, listenPc, admin, products, orders, logos, nextOid>>

ArriveCreateProduct(max) ==
    /\ Len(reqs) < max
    /\ \E a \in CreateProductBodies : reqs' = Received("createProduct", a)
    /\ UNCHANGED <<database, listenPc, admin, products, orders, logos, nextOid>>

ArriveUpdateProduct(max) ==
    /\ Len(reqs) < max
    /\ \E a \in UpdateProductBodies \cup {MalformedBody} : reqs' = Received("updateProduct", a)
    /\ UNCHANGED <<database, listenPc, admin, products, orders, logos, nextOid>>

ArriveDeleteProduct(max) ==
    /\ Len(reqs) < max
    /\ \E a \in IdParams : reqs' = Received("deleteProduct", a)
    /\ UNCHANGED <<database, listenPc, admin, products, orders, logos, nextOid>>

---------------------------------------------------------------------------
(* Order and logo services: from each await to the next.                   *)

\* GET /api/orders: find({}).toArray() has answered.
ListOrdersFind(i) ==
    /\ At(i, "listOrders", "find")
    /\ reqs' = [reqs EXCEPT ![i] = Respond(reqs[i], "handler", 200, "", [list |-> orders])]
    /\ UNCHANGED <<database, listenPc, admin, products, orders, logos, nextOid>>

\* GET /api/orders/:id, lines 290-297: findOne has answered.
GetOrderFindOne(i) ==
    /\ At(i, "getOrder", "findOne")
    /\ LET r == reqs[i]
           m == MatchId(orders, NewObjectId(r.a.id))
       IN  reqs' = [reqs EXCEPT ![i] =
                      IF m = {}
                      THEN Respond(r, "handler", 404, "Order not found", NoBody)
                      ELSE Respond(r, "handler", 200, "",
                                   [id |-> FindOne(orders, m)._id,
                                    status |-> FindOne(orders, m).status])]
    /\ UNCHANGED <<database, listenPc, admin, products, orders, logos, nextOid>>

\* (An update that writes another status.)
SetShipped == [status |-> "shipped"]

\* The update of line 319.
SetComplete == [status |-> "complete"]

\* POST /api/orders/:orderId/complete, lines 317-326: updateOne has answered.
CompleteOrderUpdateOne(i) ==
    /\ At(i, "completeOrder", "updateOne")
    /\ LET r == reqs[i]
           m == MatchId(orders, NewObjectId(r.a.id))
       IN  /\ orders' = UpdateOne(orders, m, SetComplete)
           /\ reqs' = [reqs EXCEPT ![i] =
                         IF MatchedCount(m) = 0
                         THEN Respond(r, "handler", 404, "Order not found", NoBody)
                         ELSE Respond(r, "handler", 200, "Order status updated to complete",
                                      NoBody)]
    /\ UNCHANGED <<database, listenPc, admin, products, logos, nextOid>>

\* GET /api/admins: find({}).toArray() has answered; the hashes are in the list.
ListAdminsFind(i) ==
    /\ At(i, "listAdmins", "find")
    /\ reqs' = [reqs EXCEPT ![i] = Respond(reqs[i], "handler", 200, "", [list |-> admin])]
    /\ UNCHANGED <<database, listenPc, admin, products, orders, logos, nextOid>>

\* GET /api/logos: find({}).toArray() has answered.
ListLogosFind(i) ==
    /\ At(i, "listLogos", "find")
    /\ reqs' = [reqs EXCEPT ![i] = Respond(reqs[i], "handler", 200, "", [list |-> logos])]
    /\ UNCHANGED <<database, listenPc, admin, products, orders, logos, nextOid>>

\* GET /api/logos/:id, lines 402-408: findOne has answered.
GetLogoFindOne(i) ==
    /\ At(i, "getLogo", "findOne")
    /\ LET r == reqs[i]
           m == MatchId(logos, NewObjectId(r.a.id))
       IN  reqs' = [reqs EXCEPT ![i] =
                      IF m = {}
                      THEN Respond(r, "handler", 404, "Logo not found", NoBody)
                      ELSE Respond(r, "handler", 200, "", FindOne(logos, m))]
    /\ UNCHANGED <<database, listenPc, admin, products, orders, logos, nextOid>>

\* The update of line 430.
SetApproved == [approval |-> TRUE]

\* POST /api/logos/:id/complete, lines 428-437: updateOne has answered.
ApproveLogoUpdateOne(i) ==
    /\ At(i, "approveLogo", "updateOne")
    /\ LET r == reqs[i]
           m == MatchId(logos, NewObjectId(r.a.id))
       IN  /\ logos' = UpdateOne(logos, m, SetApproved)
           /\ reqs' = [reqs EXCEPT ![i] =
                         IF MatchedCount(m) = 0
                         THEN Respond(r, "handler", 404, "Logo not found", NoBody)
                         ELSE Respond(r, "handler", 200, "Logo status updated to complete",
                                      NoBody)]
    /\ UNCHANGED <<database, listenPc, admin, products, orders, nextOid>>

ArriveListOrders(max) ==
    /\ Len(reqs) < max
    /\ reqs' = Received("listOrders", NoParams)
    /\ UNCHANGED <<database, listenPc, admin, products, orders, logos, nextOid>>

ArriveGetOrder(max) ==
    /\ Len(reqs) < max
    /\ \E a \in IdParams : reqs' = Received("getOrder", a)
    /\ UNCHANGED <<database, listenPc, admin, products, orders, logos, nextOid>>

ArriveCompleteOrder(max) ==
    /\ Len(reqs) < max
    /\ \E a \in IdParams : reqs' = Received("completeOrder", a)
    /\ UNCHANGED <<database, listenPc, admin, products, orders, logos, nextOid>>

ArriveListAdmins(max) ==
    /\ Len(reqs) < max
    /\ reqs' = Received("listAdmins", NoParams)
    /\ UNCHANGED <<database, listenPc, admin, products, orders, logos, nextOid>>

ArriveListLogos(max) ==
    /\ Len(reqs) < max
    /\ reqs' = Received("listLogos", NoParams)
    /\ UNCHANGED <<database, listenPc, admin, products, orders, logos, nextOid>>

ArriveGetLogo(max) ==
    /\ Len(reqs) < max
    /\ \E a \in IdParams : reqs' = Received("getLogo", a)
    /\ UNCHANGED <<database, listenPc, admin, products, orders, logos, nextOid>>

ArriveApproveLogo(max) ==
    /\ Len(reqs) < max
    /\ \E a \in IdParams : reqs' = Received("approveLogo", a)
    /\ UNCHANGED <<database, listenPc, admin, products, orders, logos, nextOid>>

---------------------------------------------------------------------------
(* Reporting service.  Time is counted in days; a month is taken to have   *)
(* 30 days and a year 360, so that the first day of the month of day d is  *)
(* d - d % 30 and the first of its year d - d % 360.                       *)

\* [{$group: {_id: null, total: {$sum: "$price"}}}] and `total[0]?.total || 0`:
\* the sum over the documents, 0 for none.
RECURSIVE SumPrice(_)
SumPrice(coll) == IF coll = <<>> THEN 0 ELSE Head(coll).price + SumPrice(Tail(coll))

\* The same over totalAmount, after {$match: {createdAt: {$gte: since}}}.
RECURSIVE SumAmountSince(_, _)
SumAmountSince(coll, since) ==
    IF coll = <<>> THEN 0
    ELSE (IF Head(coll).createdAt >= since THEN Head(coll).totalAmount ELSE 0)
            + SumAmountSince(Tail(coll), since)

\* Without a $match every order counts.
SumAmount(coll) == SumAmountSince(coll, 0)

\* GET /api/total, lines 448-453: the aggregate over logos has answered.
TotalsAggregateLogos(i) ==
    /\ At(i, "totals", "aggregateLogos")
    /\ LET r == reqs[i] IN
       reqs' = [reqs EXCEPT ![i] =
                  Await([r EXCEPT !.local = [totalPrice |-> SumPrice(logos)]],
                        "aggregateOrders")]
    /\ UNCHANGED <<database, listenPc, admin, products, orders, logos, nextOid>>

\* Lines 453-460: the aggregate over orders has answered.
TotalsAggregateOrders(i) ==
    /\ At(i, "totals", "aggregateOrders")
    /\ LET r == reqs[i] IN
       reqs' = [reqs EXCEPT ![i] =
                  Respond(r, "handler", 200, "",
                          [totalPrice |-> r.local.totalPrice,
                           totalAmount |-> SumAmount(orders)])]
    /\ UNCHANGED <<database, listenPc, admin, products, orders, logos, nextOid>>

\* GET /api/sales-stats, lines 469-473: the aggregate over all orders has answered.
SalesStatsTotal(i) ==
    /\ At(i, "salesStats", "aggregateTotal")
    /\ LET r == reqs[i] IN
       reqs' = [reqs EXCEPT ![i] =
                  Await([r EXCEPT !.local = [totalSales |-> SumAmount(orders)]],
                        "aggregateWeekly")]
    /\ UNCHANGED <<database, listenPc, admin, products, orders, logos, nextOid>>

\* Lines 473-478: the orders of the last seven days.
SalesStatsWeekly(i) ==
    /\ At(i, "salesStats", "aggregateWeekly")
    /\ LET r == reqs[i]
           weekly == SumAmountSince(orders, r.a.now - 7)
       IN  reqs' = [reqs EXCEPT ![i] =
                      Await([r EXCEPT !.local = [weeklySales |-> weekly] @@ r.local],
                            "aggregateMonthly")]
    /\ UNCHANGED <<database, listenPc, admin, products, orders, logos, nextOid>>

\* Lines 478-483: the orders of the current month.
SalesStatsMonthly(i) ==
    /\ At(i, "salesStats", "aggregateMonthly")
    /\ LET r == reqs[i]
           monthly == SumAmountSince(orders, r.a.now - (r.a.now % 30))
       IN  reqs' = [reqs EXCEPT ![i] =
                      Await([r EXCEPT !.local = [monthlySales |-> monthly] @@ r.local],
                            "aggregateYearly")]
    /\ UNCHANGED <<database, listenPc, admin, products, orders, logos, nextOid>>

\* The series of line 493, which is not computed from the store.
SalesByMonth == <<3000, 4200, 3500, 5200, 6000, 7200, 8000, 8500, 9000, 9500, 10000, 11000>>

\* Lines 483-494: the orders of the current year.
SalesStatsYearly(i) ==
    /\ At(i, "salesStats", "aggregateYearly")
    /\ LET r == reqs[i]
           yearly == SumAmountSince(orders, r.a.now - (r.a.now % 360))
       IN  reqs' = [reqs EXCEPT ![i] =
                      Respond(r, "handler", 200, "",
                              [weeklySales |-> r.local.weeklySales,
                               monthlySales |-> r.local.monthlySales,
                               yearlySales |-> yearly,
                               totalSales |-> r.local.totalSales,
                               salesByMonth |-> SalesByMonth])]
    /\ UNCHANGED <<database, listenPc, admin, products, orders, logos, nextOid>>

ArriveTotals(max) ==
    /\ Len(reqs) < max
    /\ reqs' = Received("totals", NoParams)
    /\ UNCHANGED <<database, listenPc, admin, products, orders, logos, nextOid>>

\* The days on which the statistics are asked for: in the week, in the month
\* but not the week, and in the year but not the month of the stored order,
\* and in a later year.
Days == {405, 415, 425, 725}

ArriveSalesStats(max) ==
    /\ Len(reqs) < max
    /\ \E now \in Days : reqs' = Received("salesStats", [now |-> now])
    /\ UNCHANGED <<database, listenPc, admin, products, orders, logos, nextOid>>

\* The positions a request can have in `reqs`.
RequestIds == 1..(MaxRequests + MaxCredentialRequests + MaxOrderRequests + MaxSeqRequests)

NextCredential ==
    \/ connectToDatabase
    \/ ArriveRegister(MaxRequests)
    \/ ArriveLogin(MaxRequests)
    \/ ArriveLoginWithId(MaxRequests)
    \/ \E i \in RequestIds : ParseBody(i)
    \/ \E i \in RequestIds : RegisterFindOne(i)
    \/ \E i \in RequestIds : RegisterHash(i)
    \/ \E i \in RequestIds : RegisterInsertOne(i)
    \/ \E i \in RequestIds : LoginFindOne(i)
    \/ \E i \in RequestIds : LoginCompare(i)
    \/ \E i \in RequestIds : LoginWithIdFindOne(i)

\* Registrations and logins only, so that a login can follow two registrations.
NextRegisterLogin ==
    \/ connectToDatabase
    \/ ArriveRegister(MaxCredentialRequests)
    \/ ArriveLogin(MaxCredentialRequests)
    \/ \E i \in RequestIds : ParseBody(i)
    \/ \E i \in RequestIds : RegisterFindOne(i)
    \/ \E i \in RequestIds : RegisterHash(i)
    \/ \E i \in RequestIds : RegisterInsertOne(i)
    \/ \E i \in RequestIds : LoginFindOne(i)
    \/ \E i \in RequestIds : LoginCompare(i)

NextCatalog ==
    \/ connectToDatabase
    \/ ArriveListProducts(MaxRequests)
    \/ ArriveCreateProduct(MaxRequests)
    \/ ArriveUpdateProduct(MaxRequests)
    \/ ArriveDeleteProduct(MaxRequests)
    \/ \E i \in RequestIds : ParseBody(i)
    \/ \E i \in RequestIds : ListProductsFind(i)
    \/ \E i \in RequestIds : CreateProductUploaded(i)
    \/ \E i \in RequestIds : CreateProductInsertOne(i)
    \/ \E i \in RequestIds : UpdateProductUpdateOne(i)
    \/ \E i \in RequestIds : DeleteProductDeleteOne(i)

NextOrders ==
    \/ connectToDatabase
    \/ ArriveListOrders(MaxOrderRequests)
    \/ ArriveGetOrder(MaxOrderRequests)
    \/ ArriveCompleteOrder(MaxOrderRequests)
    \/ ArriveListLogos(MaxOrderRequests)
    \/ ArriveGetLogo(MaxOrderRequests)
    \/ ArriveApproveLogo(MaxOrderRequests)
    \/ \E i \in RequestIds : ListOrdersFind(i)
    \/ \E i \in RequestIds : GetOrderFindOne(i)
    \/ \E i \in RequestIds : CompleteOrderUpdateOne(i)
    \/ \E i \in RequestIds : ListLogosFind(i)
    \/ \E i \in RequestIds : GetLogoFindOne(i)
    \/ \E i \in RequestIds : ApproveLogoUpdateOne(i)

\* The handlers of every route.
Step(i) ==
    \/ ParseBody(i)
    \/ RegisterFindOne(i) \/ RegisterHash(i) \/ RegisterInsertOne(i)
    \/ LoginFindOne(i) \/ LoginCompare(i)
    \/ LoginWithIdFindOne(i)
    \/ ListProductsFind(i)
    \/ CreateProductUploaded(i) \/ CreateProductInsertOne(i)
    \/ UpdateProductUpdateOne(i)
    \/ DeleteProductDeleteOne(i)
    \/ ListOrdersFind(i) \/ GetOrderFindOne(i) \/ CompleteOrderUpdateOne(i)
    \/ ListAdminsFind(i)
    \/ ListLogosFind(i) \/ GetLogoFindOne(i) \/ ApproveLogoUpdateOne(i)
    \/ TotalsAggregateLogos(i) \/ TotalsAggregateOrders(i)
    \/ SalesStatsTotal(i) \/ SalesStatsWeekly(i) \/ SalesStatsMonthly(i)
    \/ SalesStatsYearly(i)

Next ==
    \/ connectToDatabase
    \/ ArriveRegister(MaxRequests)
    \/ ArriveLogin(MaxRequests)
    \/ ArriveLoginWithId(MaxRequests)
    \/ ArriveListProducts(MaxRequests)
    \/ ArriveCreateProduct(MaxRequests)
    \/ ArriveUpdateProduct(MaxRequests)
    \/ ArriveDeleteProduct(MaxRequests)
    \/ ArriveListOrders(MaxRequests)
    \/ ArriveGetOrder(MaxRequests)
    \/ ArriveCompleteOrder(MaxRequests)
    \/ ArriveListAdmins(MaxRequests)
    \/ ArriveListLogos(MaxRequests)
    \/ ArriveGetLogo(MaxRequests)
    \/ ArriveApproveLogo(MaxRequests)
    \/ ArriveTotals(MaxRequests)
    \/ ArriveSalesStats(MaxRequests)
    \/ \E i \in RequestIds : Step(i)

\* Register and login requests, each answered before the next is received.
NextRegisterSeq ==
    \/ connectToDatabase
    \/ AllDone /\ ArriveRegister(MaxSeqRequests)
    \/ AllDone /\ ArriveLogin(MaxSeqRequests)
    \/ \E i \in RequestIds : ParseBody(i)
    \/ \E i \in RequestIds : RegisterFindOne(i)
    \/ \E i \in RequestIds : RegisterHash(i)
    \/ \E i \in RequestIds : RegisterInsertOne(i)
    \/ \E i \in RequestIds : LoginFindOne(i)
    \/ \E i \in RequestIds : LoginCompare(i)

\* The credential service alone, its requests interleaved at their awaits.
SpecCredential == InitCredential /\ [][NextCredential]_vars

\* Registrations and logins, interleaved at their awaits.
SpecRegisterLogin == InitCredential /\ [][NextRegisterLogin]_vars

\* The catalog service alone.
SpecCatalog == InitCatalog /\ [][NextCatalog]_vars

\* The order and logo services alone.
SpecOrders == InitOrders /\ [][NextOrders]_vars

\* The whole API, its requests interleaved at their awaits.
Spec == Init /\ [][Next]_vars

\* Registrations and logins handled one at a time.
SpecRegisterSeq == InitCredential /\ [][NextRegisterSeq]_vars

---------------------------------------------------------------------------
(* Properties. *)

Requests == 1..Len(reqs)

\* Request i is a call register(name, email, password): its body is JSON and
\* carries the three fields.
IsRegister(i) ==
    /\ reqs[i].op = "register" /\ reqs[i].a.json
    /\ ~Falsy(reqs[i].a.name) /\ ~Falsy(reqs[i].a.email) /\ ~Falsy(reqs[i].a.password)

\* Request i is a register call that was answered 201.
Registered(i) == IsRegister(i) /\ Done(i) /\ reqs[i].resp.status = 201

SameEmail(i, j) == reqs[i].a.email = reqs[j].a.email

\* C1: when the register requests are handled one at a time, a register call
\* for an email that an earlier register call stored is answered 400 'Email
\* already exists' and has issued nothing but its lookup; the admin collection
\* holds exactly one record for every registered email, none for any other, and
\* as many records as there were successful register calls.
C1_SequentialRegisterKeepsEmailUnique ==
    /\ \A i \in Requests : \A j \in 1..(i - 1) :
          (Registered(j) /\ IsRegister(i) /\ Done(i) /\ SameEmail(i, j))
             => /\ reqs[i].resp.status = 400
                /\ reqs[i].resp.message = "Email already exists"
                /\ reqs[i].storeOps = 1
    /\ \A i \in Requests :
          IsRegister(i)
             => Cardinality(MatchEmail(admin, reqs[i].a.email))
                   = IF \E j \in Requests : Registered(j) /\ SameEmail(i, j) THEN 1 ELSE 0
    /\ Len(admin) = Cardinality({j \in Requests : Registered(j)})

\* A second register call for a stored email has been answered.
C1_Witness ==
    \E i \in Requests : \E j \in 1..(i - 1) :
       /\ Registered(j) /\ IsRegister(i) /\ Done(i) /\ SameEmail(i, j)
       /\ reqs[i].resp.status = 400
       /\ Len(admin) = 1

\* Register call i has looked its email up and found no admin: it awaits the
\* hash or the insert, or has issued its insert and been answered.
PassedLookup(i) ==
    /\ IsRegister(i)
    /\ \/ reqs[i].pc \in {"hash", "insertOne"}
       \/ Done(i) /\ reqs[i].storeOps = 2

\* C2: two register calls with the same email whose lookups both found nothing
\* (no admin is ever removed, so neither insert ran before the other's lookup)
\* are both answered 201, and the admin collection then holds two records with
\* that email.
C2_RacingRegistersBothInsert ==
    \A i \in Requests : \A j \in Requests :
       (i # j /\ PassedLookup(i) /\ PassedLookup(j) /\ SameEmail(i, j) /\ Done(i) /\ Done(j))
          => /\ reqs[i].resp.status = 201 /\ reqs[j].resp.status = 201
             /\ Cardinality(MatchEmail(admin, reqs[i].a.email)) >= 2
             /\ reqs[i].local._id # reqs[j].local._id

\* Two register calls with one email were both answered 201 and the collection
\* holds two admins with that email.
C2_Witness ==
    \E i \in Requests : \E j \in Requests :
       /\ i # j /\ Registered(i) /\ Registered(j) /\ SameEmail(i, j)
       /\ Cardinality(MatchEmail(admin, reqs[i].a.email)) = 2

\* The gate runs for request i in this step: the request is received and
\* awaits no body, or its JSON body has been parsed.
GateRuns(i) ==
    \/ i = Len(reqs) + 1 /\ Len(reqs') = i /\ reqs'[i].op \notin JsonOps
    \/ i \in Requests /\ reqs[i].pc = "parse" /\ reqs[i].a.json /\ reqs'[i].pc # "parse"

\* C3 as stated: a request received while `database` is unassigned is never
\* handed to a route handler, issues no store operation, and is answered by the
\* readiness gate with status 500.
C3_EarlyRequestsAnsweredByGate ==
    \A i \in Requests :
       reqs[i].early
          => /\ ~reqs[i].handled /\ reqs[i].storeOps = 0
             /\ Done(i) => reqs[i].by = "gate" /\ reqs[i].resp.status = 500

\* While `database` is unassigned no request is in a route handler or has
\* issued a store operation, and what has been answered was answered 500 by the
\* gate or, the body being no JSON, 400 by the body parser.
C3_NothingBeforeInitialization ==
    ~database =>
       \A i \in Requests :
          /\ ~reqs[i].handled /\ reqs[i].storeOps = 0
          /\ reqs[i].pc \in {"parse", "done"}
          /\ Done(i) => \/ reqs[i].by = "gate" /\ reqs[i].resp.status = 500
                        \/ reqs[i].by = "bodyParser" /\ reqs[i].resp.status = 400

\* A request for which the gate runs while `database` is unassigned is
\* answered by the gate with 500 and not handed to its route.
C3_GateStep ==
    \A i \in RequestIds :
       (GateRuns(i) /\ ~database)
          => /\ reqs'[i].pc = "done" /\ reqs'[i].by = "gate"
             /\ reqs'[i].resp.status = 500
             /\ ~reqs'[i].handled /\ reqs'[i].storeOps = 0

\* C3, amended: every request that reaches the readiness gate while `database`
\* is unassigned is answered by the gate with 500 and never reaches a route
\* handler, and no store operation is issued before initialization has
\* completed; the body parser, which runs before the gate, answers a body that
\* is no JSON with 400, and a request whose body it still reads when
\* initialization completes passes the gate.
C3_ReadinessGate == [](C3_NothingBeforeInitialization) /\ [][C3_GateStep]_vars

\* The gate has answered a request while `database` was unassigned.
C3_Witness ==
    /\ ~database
    /\ \E i \in Requests :
          Done(i) /\ reqs[i].early /\ reqs[i].by = "gate" /\ reqs[i].resp.status = 500

\* A step keeps every document of the collection in its place with its _id,
\* and changes the field only to the terminal value.
KeepsTerminal(coll, collNext, field, terminal) ==
    /\ Len(collNext) >= Len(coll)
    /\ \A k \in Indices(coll) :
          /\ collNext[k]._id = coll[k]._id
          /\ coll[k][field] = terminal => collNext[k][field] = terminal
          /\ collNext[k][field] # coll[k][field] => collNext[k][field] = terminal

\* C4: no step of the API removes an order or a logo, and a step that changes
\* an order's status writes "complete", a step that changes a logo's approval
\* writes true; so a complete order stays complete and an approved logo stays
\* approved.
C4_TerminalStatus ==
    [][/\ KeepsTerminal(orders, orders', "status", "complete")
       /\ KeepsTerminal(logos, logos', "approval", TRUE)]_vars

\* An order was completed, and a request received after that was handled.
C4_Witness ==
    \E i \in Requests : \E j \in Requests :
       /\ reqs[i].op = "completeOrder" /\ Done(i) /\ reqs[i].resp.status = 200
       /\ i \in reqs[j].seen /\ Done(j) /\ reqs[j].handled
       /\ orders[1].status = "complete"

\* Request i is answered in this step.
AnsweredNow(i) ==
    /\ i \in 1..Len(reqs') /\ reqs'[i].pc = "done"
    /\ i > Len(reqs) \/ reqs[i].pc # "done"

\* The positions of the documents that the identifier a client sent denotes.
Denoted(coll, id) == {k \in Indices(coll) : id.k = "hex" /\ coll[k]._id = id.oid}

SameId(i, j) == reqs[i].a.id = reqs[j].a.id

\* A getOrder (getLogo) received after completeOrder (approveLogo) of the same
\* id was answered 200 is answered 200 with status "complete" (approval true).
C5_ReadAfterTransition ==
    \A i \in Requests : \A j \in Requests :
       (i \in reqs[j].seen /\ Done(j) /\ reqs[i].resp.status = 200)
          => /\ (reqs[i].op = "completeOrder" /\ reqs[j].op = "getOrder" /\ SameId(i, j))
                  => /\ reqs[j].resp.status = 200
                     /\ reqs[j].resp.body.status = "complete"
                     /\ reqs[j].resp.body.id = reqs[j].a.id.oid
             /\ (reqs[i].op = "approveLogo" /\ reqs[j].op = "getLogo" /\ SameId(i, j))
                  => /\ reqs[j].resp.status = 200
                     /\ reqs[j].resp.body.approval = TRUE
                     /\ reqs[j].resp.body._id = reqs[j].a.id.oid

\* Request j has been preceded by a call of the same transition on the same
\* id that was answered 200.
CalledBefore(j) ==
    \E i \in Requests :
       i # j /\ reqs[i].op = reqs[j].op /\ SameId(i, j) /\ Done(i) /\ reqs[i].resp.status = 200

\* completeOrder (approveLogo) of an existing id is answered 200 and leaves the
\* order complete (the logo approved); a repeated call leaves the store as it was.
C5_TransitionStep ==
    \A j \in Requests :
       /\ (At(j, "completeOrder", "updateOne") /\ AnsweredNow(j)
              /\ Denoted(orders, reqs[j].a.id) # {})
            => /\ reqs'[j].resp.status = 200
               /\ \A k \in Denoted(orders, reqs[j].a.id) : orders'[k].status = "complete"
               /\ logos' = logos
               /\ CalledBefore(j) => orders' = orders
       /\ (At(j, "approveLogo", "updateOne") /\ AnsweredNow(j)
              /\ Denoted(logos, reqs[j].a.id) # {})
            => /\ reqs'[j].resp.status = 200
               /\ \A k \in Denoted(logos, reqs[j].a.id) : logos'[k].approval = TRUE
               /\ orders' = orders
               /\ CalledBefore(j) => logos' = logos

\* C5: for an existing order, completeOrder followed by getOrder returns status
\* "complete", and for an existing logo approveLogo followed by getLogo returns
\* approval true; the transition called twice is answered 200 both times and
\* the second call leaves the store as the first left it.
C5_CompleteThenGet == [](C5_ReadAfterTransition) /\ [][C5_TransitionStep]_vars

\* completeOrder was called twice for one order and answered 200 both times,
\* and a getOrder received after the first was answered.
C5_Witness ==
    \E i \in Requests : \E j \in Requests : \E g \in Requests :
       /\ reqs[i].op = "completeOrder" /\ reqs[j].op = "completeOrder" /\ SameId(i, j)
       /\ i \in reqs[j].seen
       /\ reqs[i].resp.status = 200 /\ reqs[j].resp.status = 200
       /\ reqs[g].op = "getOrder" /\ SameId(i, g) /\ i \in reqs[g].seen
       /\ reqs[g].resp.status = 200

\* The four operations that take the id of an order or a logo.
IdOps == {"getOrder", "completeOrder", "getLogo", "approveLogo"}
CollectionOf(op) == IF op \in {"getOrder", "completeOrder"} THEN orders ELSE logos

\* A malformed id handed to one of the four handlers is answered 400 at once,
\* without a store operation.
C6_MalformedIdRejected ==
    \A i \in Requests :
       (reqs[i].op \in IdOps /\ reqs[i].handled /\ reqs[i].a.id.k = "malformed")
          => /\ Done(i) /\ reqs[i].resp.status = 400
             /\ reqs[i].storeOps = 0

\* The step that answers a malformed id, and the step that answers a
\* well-formed id denoting no record (with 404), leave orders and logos as
\* they were.
C6_RejectionStep ==
    \A i \in RequestIds :
       (AnsweredNow(i) /\ reqs'[i].op \in IdOps /\ reqs'[i].by = "handler")
          => /\ reqs'[i].a.id.k = "malformed"
                  => orders' = orders /\ logos' = logos /\ reqs'[i].resp.status = 400
             /\ (reqs'[i].a.id.k = "hex"
                    /\ Denoted(CollectionOf(reqs'[i].op), reqs'[i].a.id) = {})
                  => orders' = orders /\ logos' = logos /\ reqs'[i].resp.status = 404

\* C6: getOrder, completeOrder, getLogo and approveLogo answer an id that is
\* not well-formed with 400 without a store operation, and a well-formed id
\* that denotes no record with 404; both leave orders and logos unchanged.
C6_BadIdsChangeNothing == [](C6_MalformedIdRejected) /\ [][C6_RejectionStep]_vars

\* A malformed id was answered 400 and an unmatched one 404.
C6_Witness ==
    \E i \in Requests : \E j \in Requests :
       /\ reqs[i].op \in IdOps /\ reqs[i].a.id.k = "malformed"
       /\ reqs[i].by = "handler" /\ reqs[i].resp.status = 400
       /\ reqs[j].op \in {"completeOrder", "approveLogo"} /\ reqs[j].a.id.k = "hex"
       /\ reqs[j].by = "handler" /\ reqs[j].resp.status = 404

\* The collection without the documents whose _id is oid.
Without(coll, oid) == SelectSeq(coll, LAMBDA d : d._id # oid)

\* The handler of deleteProduct answers request i in this step.
DeleteAnswered(i) ==
    AnsweredNow(i) /\ reqs'[i].op = "deleteProduct" /\ reqs'[i].by = "handler"

\* deleteProduct of an id that denotes a product is answered 200, removes that
\* product and no other.
DeleteRemovesOne(i) ==
    LET id == reqs'[i].a.id IN
    Denoted(products, id) # {}
       => /\ reqs'[i].resp.status = 200
          /\ products' = Without(products, id.oid)
          /\ Len(products') = Len(products) - 1

\* C7 as stated: deleteProduct of an id that matches no product is answered
\* 404 and leaves the products unchanged; of an id that matches a product it
\* removes that product and no other.
C7_DeleteUnmatchedIsNotFound ==
    [][\A i \in RequestIds :
          DeleteAnswered(i)
             => /\ Denoted(products, reqs'[i].a.id) = {}
                     => reqs'[i].resp.status = 404 /\ products' = products
                /\ DeleteRemovesOne(i)]_vars

\* C7, amended: deleteProduct of a well-formed id that matches no product is
\* answered 404 and of a malformed id 500, both leaving the products unchanged;
\* of an id that matches a product it removes that product and no other.
C7_DeleteProduct ==
    [][\A i \in RequestIds :
          DeleteAnswered(i)
             => /\ (reqs'[i].a.id.k = "hex" /\ Denoted(products, reqs'[i].a.id) = {})
                     => reqs'[i].resp.status = 404 /\ products' = products
                /\ reqs'[i].a.id.k = "malformed"
                     => reqs'[i].resp.status = 500 /\ products' = products
                /\ DeleteRemovesOne(i)]_vars

\* A product was deleted and another is still stored; another deleteProduct was
\* answered 404.
C7_Witness ==
    \E i \in Requests : \E j \in Requests :
       /\ reqs[i].op = "deleteProduct" /\ reqs[i].resp.status = 200
       /\ Denoted(products, reqs[i].a.id) = {} /\ Len(products) = 1
       /\ reqs[j].op = "deleteProduct" /\ reqs[j].resp.status = 404

\* Request i is a call login(email, password): its body is JSON and carries
\* both fields.
IsLogin(i) ==
    /\ reqs[i].op = "login" /\ reqs[i].a.json
    /\ ~Falsy(reqs[i].a.email) /\ ~Falsy(reqs[i].a.password)

SamePassword(i, j) == reqs[i].a.password = reqs[j].a.password

InvalidLogin(i) ==
    /\ reqs[i].resp.status = 401
    /\ reqs[i].resp.message = "Invalid email or password"
    /\ reqs[i].resp.body = NoBody

\* A login of an email that no register call has stored is answered 401.
LoginOfUnknownEmail(i) ==
    (\A j \in Requests : ~(Registered(j) /\ SameEmail(i, j))) => InvalidLogin(i)

\* C8 as stated: a login received after a successful register of its email is
\* answered 200 with the id of the record that register inserted, its email and
\* its name when the passwords are the same, and 401 when they differ; a login
\* of an email never registered is answered 401.
C8_LoginReturnsRegisteredId ==
    \A i \in Requests :
       (IsLogin(i) /\ Done(i) /\ reqs[i].handled)
          => /\ LoginOfUnknownEmail(i)
             /\ \A j \in reqs[i].seen :
                   (Registered(j) /\ SameEmail(i, j))
                      => IF SamePassword(i, j)
                         THEN /\ reqs[i].resp.status = 200
                              /\ reqs[i].resp.body = [id |-> reqs[j].local._id,
                                                      email |-> reqs[j].a.email,
                                                      name |-> reqs[j].a.name]
                         ELSE InvalidLogin(i)

\* The register call that inserted the admin record doc.
InsertedBy(doc) == CHOOSE f \in Requests : Registered(f) /\ reqs[f].local._id = doc._id

\* C8, amended: a login received after a successful register of its email is
\* answered by the first admin record stored with that email: 200 with that
\* record's id, email and name, and no hash, when the password is the one that
\* record was registered with, and 401 'Invalid email or password' otherwise.
\* That record is the one the register inserted unless another registration of
\* the same email was inserted before it (C2).  A login of an email never
\* registered is answered 401.
C8_LoginAnsweredByFirstRecord ==
    \A i \in Requests :
       (IsLogin(i) /\ Done(i) /\ reqs[i].handled)
          => /\ LoginOfUnknownEmail(i)
             /\ \A j \in reqs[i].seen :
                   (Registered(j) /\ SameEmail(i, j))
                      => LET first == FindOne(admin, MatchEmail(admin, reqs[i].a.email)) IN
                         IF SamePassword(i, InsertedBy(first))
                         THEN /\ reqs[i].resp.status = 200
                              /\ reqs[i].resp.body = [id |-> first._id,
                                                      email |-> reqs[i].a.email,
                                                      name |-> first.name]
                              /\ (first._id = reqs[j].local._id)
                                    => reqs[i].resp.body.name = reqs[j].a.name
                         ELSE InvalidLogin(i)

\* A login with the registered password, received after the register was
\* answered, got the id of the record that register inserted; another login,
\* with another password, got 401.
C8_Witness ==
    \E i \in Requests : \E j \in Requests : \E k \in Requests :
       /\ Registered(j) /\ j \in reqs[i].seen /\ IsLogin(i) /\ SameEmail(i, j)
       /\ SamePassword(i, j) /\ reqs[i].resp.status = 200
       /\ reqs[i].resp.body.id = reqs[j].local._id
       /\ IsLogin(k) /\ j \in reqs[k].seen /\ SameEmail(k, j) /\ ~SamePassword(k, j)
       /\ reqs[k].resp.status = 401

\* C9: loginWithId never changes the store, and its handler answers an absent
\* (or empty) id with 400, a malformed id with 500, a well-formed id that
\* denotes no admin with 401, and the id of an admin with 200 and that admin's
\* id, email and name.
C9_LoginWithIdOutcomes ==
    [][\A i \in RequestIds :
          (AnsweredNow(i) /\ reqs'[i].op = "loginWithId" /\ reqs'[i].by = "handler")
             => LET id == reqs'[i].a.id
                    resp == reqs'[i].resp
                IN  /\ UNCHANGED <<admin, products, orders, logos>>
                    /\ id.k \in {"absent", "empty"} => resp.status = 400
                    /\ id.k = "malformed" => resp.status = 500
                    /\ (id.k = "hex" /\ Denoted(admin, id) = {}) => resp.status = 401
                    /\ \A k \in Denoted(admin, id) :
                          /\ resp.status = 200
                          /\ resp.body = [id |-> id.oid, email |-> admin[k].email,
                                          name |-> admin[k].name]]_vars

\* loginWithId with the id of a registered admin was answered 200 with the id
\* and the email of that registration.
C9_Witness ==
    \E i \in Requests : \E j \in Requests :
       /\ reqs[i].op = "loginWithId" /\ reqs[i].resp.status = 200
       /\ Registered(j) /\ reqs[i].resp.body.id = reqs[j].local._id
       /\ reqs[i].resp.body.email = reqs[j].a.email

\* The handler of updateProduct answers request i with 200 in this step.
UpdateSucceeds(i) ==
    /\ At(i, "updateProduct", "updateOne") /\ AnsweredNow(i)
    /\ reqs'[i].resp.status = 200

\* What a successful update leaves of the product at position k, when it
\* stores `price`: the fields of the request, null for an image that is omitted
\* or empty, "" for a description that is omitted, and the identifier it had.
UpdatedAs(i, k, price) ==
    LET a == reqs[i].a IN
    [_id |-> products[k]._id, name |-> a.name, category |-> a.category,
     price |-> price, size |-> a.size,
     image |-> IF a.image \in {Undefined, ""} THEN Null ELSE a.image,
     description |-> IF a.description = Undefined THEN "" ELSE a.description]

\* C10 as stated: a successful updateProduct overwrites the image with null
\* when the request has none, overwrites name, category, price, size and
\* description with the values of the request, keeps the identifier and
\* changes no other product.
C10_UpdateStoresRequestValues ==
    [][\A i \in Requests :
          UpdateSucceeds(i)
             => /\ Len(products') = Len(products)
                /\ \A k \in Indices(products) :
                      products'[k] = IF k \in Denoted(products, reqs[i].a.id)
                                     THEN UpdatedAs(i, k, reqs[i].a.price)
                                     ELSE products[k]]_vars

\* The number that parseFloat reads from the price of a request: the price
\* itself when it is a number, the value of its leading digits when it is a
\* string that starts with digits.
ReadPrice(v) ==
    CASE v.t = "number" -> v
      [] v.t = "string" /\ v.s # <<>> /\ Head(v.s) \in Digits ->
            NumberValue(DecimalValue(SelectSeq(v.s, LAMBDA c : c \in Digits), 0))
      [] OTHER -> NaN

\* C10, amended: as stated, except that the price stored is parseFloat of the
\* price of the request: the number at the start of a string, NaN for a string
\* that starts with none.
C10_UpdateOverwritesImage ==
    [][\A i \in Requests :
          UpdateSucceeds(i)
             => /\ Len(products') = Len(products)
                /\ \A k \in Indices(products) :
                      products'[k] = IF k \in Denoted(products, reqs[i].a.id)
                                     THEN UpdatedAs(i, k, ReadPrice(reqs[i].a.price))
                                     ELSE products[k]]_vars

\* A product that createProduct stored with the URL of its image was updated
\* by a request without an image, and its image is null.
C10_Witness ==
    \E i \in Requests : \E j \in Requests : \E k \in Indices(products) :
       /\ reqs[i].op = "createProduct" /\ reqs[i].resp.status = 201
       /\ reqs[i].resp.body.product.image = "url1"
       /\ reqs[j].op = "updateProduct" /\ reqs[j].resp.status = 200
       /\ reqs[j].a.image = Undefined
       /\ reqs[j].a.id.oid = reqs[i].resp.body.product._id
       /\ products[k]._id = reqs[j].a.id.oid /\ products[k].image = Null

=============================================================================
